---- MODULE Spec2Model ----
(***************************************************************************)
(* The webapp's connection layer: the module-level connect() retry loop,   *)
(* the Connection class (requestId, socket, requests, connect, onError,    *)
(* onClose, onMessage, request, send) and the WebSocket peer it talks to.  *)
(*                                                                         *)
(* One action is one browser task: an event listener (or a call of         *)
(* request()) together with the promise continuations (microtasks) that    *)
(* run before the next task.  The browser fires "error" and "close" of a   *)
(* failed open socket back to back; closeDue names the socket whose        *)
(* "close" is still to be fired, and nothing else runs in between.         *)
(***************************************************************************)
EXTENDS Naturals, Sequences, FiniteSets, TLC

\* Bounds of the model.
MaxSockets == 4
MaxRequests == 2
MaxCommands == 1

\* A correlation id the client does not assign within the bounds.
StrayId == MaxRequests

Paths == {"state"}
\* The data of a request: handler() passes undefined, paramHandler() its argument.
Undefined == "undefined"
Datas == {Undefined}
ParamDatas == {"q1"}
Payloads == {"r1"}
EventTypes == {"PlaybackPosition"}

VARIABLES
  requestId,   \* Connection.requestId
  requests,    \* Connection.requests: id -> the call whose [resolve, reject] it holds
  outcome,     \* per call of request(): the state of the promise it returned
  calls,       \* the calls of request() so far, in call order
  socket,      \* Connection.socket: the promise currently held
  promises,    \* the promises of Connection.connect(): socket (0: pending), waiters
  sockets,     \* every WebSocket created: readyState, promise (its chain), listeners
  wire,        \* per socket: what socket.send() has been handed, in order
  inbound,     \* the last frame dispatched to a "message" listener: <<socket, frame>>
  closeDue,    \* socket whose "close" follows its "error" (0: none)
  uncaught,    \* an exception or rejection nobody handles was raised
  events,      \* the events handed to the event subscribers, in order
  reports,     \* the frames reported as protocol violations, in order
  handlers,    \* the calls of typed handlers: call of request(), decoder, result
  fetched,     \* the last call of an HTTP helper and the options it gave fetch()
  store        \* the redux store: heap of state objects, current state, last dispatch

vars == <<requestId, requests, outcome, calls, socket, promises, sockets, wire,
          inbound, closeDue, uncaught, events, reports, handlers,
          fetched, store>>

conn == <<requestId, requests, outcome, calls, uncaught>>

\* What the connection passes on to its observers.
observers == <<events, reports>>

\* The state of the typed API surface and of the helpers beside the connection.
beside == <<handlers, fetched, store>>

SocketIds == DOMAIN sockets
PromiseIds == DOMAIN promises

\* new WebSocket("/ws"), created on behalf of the Connection.connect() promise p
NewSocket(p) == [readyState |-> "connecting", promise |-> p, listeners |-> FALSE]

\* new Promise(...) of Connection.connect(): pending, nobody awaits it yet
NewPromise == [socket |-> 0, waiters |-> <<>>]

\* The connection state the code leaves implicit in this.socket.
State ==
  IF promises[socket].socket # 0 THEN "Open"
  ELSE IF socket = 1 THEN "Connecting" ELSE "Reconnecting"

IsOpen == State = "Open"

\* The ids of the Request envelopes in a sequence of messages.
Ids(w) == {w[k].id : k \in {j \in DOMAIN w : w[j].type = "Request"}}

Init ==
  /\ requestId = 0
  /\ requests = <<>>
  /\ outcome = <<>>
  /\ calls = <<>>
  /\ socket = 1
  /\ promises = <<NewPromise>>
  /\ sockets = <<NewSocket(1)>>
  /\ wire = <<(<<>>)>>
  /\ inbound = <<>>
  /\ closeDue = 0
  /\ uncaught = FALSE
  /\ events = <<>>
  /\ reports = <<>>
  /\ handlers = <<>>
  /\ fetched = [helper |-> "none", defaults |-> <<>>, init |-> <<>>, options |-> <<>>]
  /\ store = [heap |-> <<[storedPlaylists |-> <<>>]>>, state |-> 1,
              before |-> [storedPlaylists |-> <<>>], action |-> [type |-> "@@INIT"]]

\* A promise nobody has resolved or rejected.
Pending == [state |-> "pending", value |-> "none"]

----------------------------------------------------------------------------
\* The WebSocket peer and the module-level connect() loop.

\* Mutant of Transmit: the message overtakes what was handed over before.
Transmit_Front(w, message) == <<message>> \o w

\* socket.send(data) on an open socket: data is handed to the transport after
\* everything handed to it before.
Transmit(w, message) == Append(w, message)

\* `await this.socket` continuations run in the order in which they awaited.
Flush(w, waiters) == w \o waiters

\* connect(): `new WebSocket("/ws")` for the chain of promise p, socket s being
\* gone; the new socket has sent and received nothing.
Attempt(p, s) ==
  /\ sockets' = Append([sockets EXCEPT ![s].readyState = "closed"], NewSocket(p))
  /\ wire' = Append(wire, <<>>)

\* Mutant of errorHandler: the failed attempt is not retried.
errorHandler_GiveUp(s) ==
  /\ sockets' = [sockets EXCEPT ![s].readyState = "closed"]
  /\ UNCHANGED <<socket, promises, wire>>

\* errorHandler of connect(): resolve(connect()), the retry of a failed attempt.
errorHandler(s) ==
  /\ Attempt(sockets[s].promise, s)
  /\ UNCHANGED <<socket, promises>>

\* The "open" listener of connect() resolves the promise with the socket;
\* Connection.connect() then attaches its listeners and returns the socket, and
\* every send() awaiting the promise runs.
openListener(s) ==
  LET p == sockets[s].promise IN
  /\ sockets' = [sockets EXCEPT ![s].readyState = "open", ![s].listeners = TRUE]
  /\ promises' = [promises EXCEPT ![p] = [socket |-> s, waiters |-> <<>>]]
  /\ wire' = [wire EXCEPT ![s] = Flush(@, promises[p].waiters)]
  /\ UNCHANGED socket

\* The server accepts the connection attempt.
SocketOpen(s) ==
  /\ closeDue = 0
  /\ sockets[s].readyState = "connecting"
  /\ openListener(s)
  /\ UNCHANGED <<conn, inbound, closeDue, observers, beside>>

\* The connection attempt fails ("error" on a connecting socket).
ConnectError(s) ==
  /\ closeDue = 0
  /\ sockets[s].readyState = "connecting"
  /\ Len(sockets) < MaxSockets
  /\ errorHandler(s)
  /\ UNCHANGED <<conn, inbound, closeDue, observers, beside>>

----------------------------------------------------------------------------
\* Connection: lifecycle.

\* this.socket = this.connect()
thisConnect(s) ==
  /\ socket' = Len(promises) + 1
  /\ promises' = Append(promises, NewPromise)
  /\ Attempt(Len(promises) + 1, s)

onError(s) == thisConnect(s)

onClose(s) == thisConnect(s)

\* An open socket fails: the browser fires "error", and "close" right after.
SocketError(s) ==
  /\ closeDue = 0
  /\ sockets[s].readyState = "open"
  /\ sockets[s].listeners
  /\ Len(sockets) + 1 < MaxSockets
  /\ onError(s)
  /\ closeDue' = s
  /\ UNCHANGED <<conn, inbound, observers, beside>>

\* "close" of a socket that was open: after its "error", or a clean close.
SocketClose(s) ==
  /\ \/ closeDue = s
     \/ closeDue = 0 /\ sockets[s].readyState = "open"
  /\ sockets[s].listeners
  /\ Len(sockets) < MaxSockets
  /\ onClose(s)
  /\ closeDue' = 0
  /\ UNCHANGED <<conn, inbound, observers, beside>>

----------------------------------------------------------------------------
\* Connection: requests.

\* Mutant of NextRequestId: the counter is not advanced.
NextRequestId_Stuck(id) == id

\* this.requestId++
NextRequestId(id) == id + 1

\* Mutant of send: the socket is used without awaiting its "open"; send() on
\* the connecting socket throws InvalidStateError and the message is lost.
send_NoAwait(message) ==
  LET s == promises[socket].socket
  IN IF s = 0
     THEN /\ uncaught' = TRUE
          /\ UNCHANGED <<wire, promises>>
     ELSE /\ wire' = [wire EXCEPT ![s] = Append(@, message)]
          /\ UNCHANGED <<uncaught, promises>>

\* send(message): (await this.socket).send(JSON.stringify(message)).  The
\* promise awaited is the one held when send() is called.  WebSocket.send()
\* throws on a socket still connecting and discards on a closed one.
send(message) ==
  LET p == socket
      s == promises[p].socket
  IN IF s = 0
     THEN /\ promises' = [promises EXCEPT ![p].waiters = Append(@, message)]
          /\ UNCHANGED <<wire, uncaught>>
     ELSE /\ wire' = [wire EXCEPT ![s] =
                        IF sockets[s].readyState = "open"
                        THEN Transmit(@, message) ELSE @]
          /\ uncaught' = (uncaught \/ sockets[s].readyState = "connecting")
          /\ UNCHANGED promises

\* Mutant of request: the continuations are not stored in the registry.
request_NoRegister(path, data) ==
  /\ requestId' = NextRequestId(requestId)
  /\ outcome' = Append(outcome, Pending)
  /\ send([type |-> "Request", id |-> requestId, path |-> path, data |-> data])
  /\ UNCHANGED requests

\* request(path, data)
request(path, data) ==
  /\ requestId' = NextRequestId(requestId)
  /\ requests' = [i \in DOMAIN requests \cup {requestId} |->
                    IF i = requestId THEN Len(calls) + 1 ELSE requests[i]]
  /\ outcome' = Append(outcome, Pending)
  /\ send([type |-> "Request", id |-> requestId, path |-> path, data |-> data])

\* A call of request(): allowed between tasks, recorded in calls.
Called(path, data) ==
  /\ closeDue = 0
  /\ Len(calls) < MaxRequests
  /\ calls' = Append(calls, [id |-> requestId,
                             on |-> promises[socket].socket])
  /\ request(path, data)
  /\ UNCHANGED <<socket, sockets, inbound, closeDue, observers>>

Request(path, data) ==
  /\ Called(path, data)
  /\ UNCHANGED beside

----------------------------------------------------------------------------
\* Inbound frames.

Response(i, r) == [type |-> "Response", id |-> i, response |-> r]

Event(e) == [type |-> "Event", event |-> e]

\* A frame whose type tag is none of MessageFromServer's.
Unknown == [type |-> "Bogus"]

\* What the server may send: a Response to any id the client can assign or to
\* one it never assigns, an Event, or a frame with an unknown tag.
Frames ==
  {Response(i, r) : i \in (0..(MaxRequests - 1)) \cup {StrayId}, r \in Payloads}
    \cup {Event(e) : e \in EventTypes}
    \cup {Unknown}

\* onMessage(): the body is empty.
onMessage == UNCHANGED <<conn, socket, promises, sockets, wire, observers>>

\* Mutant of messageListener: a Response is dispatched to the continuation
\* stored under its id without a lookup check; `undefined` is not callable.
messageListener_Unchecked(s, frame) ==
  /\ uncaught' = (uncaught \/ (frame.type = "Response" /\ frame.id \notin DOMAIN requests))
  /\ UNCHANGED <<requestId, requests, outcome, calls, socket, promises, sockets, wire,
                 observers>>

\* socket.addEventListener("message", () => this.onMessage())
messageListener(s, frame) == onMessage

\* The server sends a frame on s and the browser dispatches it.
OnMessage(s, frame) ==
  /\ closeDue = 0
  /\ sockets[s].readyState = "open"
  /\ sockets[s].listeners
  /\ inbound' = <<s, frame>>
  /\ messageListener(s, frame)
  /\ UNCHANGED <<closeDue, beside>>

----------------------------------------------------------------------------
Next ==
  \/ \E s \in SocketIds : SocketOpen(s)
  \/ \E s \in SocketIds : ConnectError(s)
  \/ \E s \in SocketIds : SocketError(s)
  \/ \E s \in SocketIds : SocketClose(s)
  \/ \E path \in Paths, data \in Datas : Request(path, data)
  \/ \E s \in SocketIds, frame \in Frames : OnMessage(s, frame)

Spec == Init /\ [][Next]_vars

\* The server eventually accepts an attempt of the connection that is held, and
\* the browser fires the "close" that follows an "error".
Accept == \E s \in SocketIds : sockets[s].promise = socket /\ SocketOpen(s)

CloseAfterError == \E s \in SocketIds : closeDue = s /\ SocketClose(s)

FairSpec == Spec /\ SF_vars(Accept) /\ WF_vars(CloseAfterError)

----------------------------------------------------------------------------
\* Commands.

Commands ==
  {[type |-> "PlayPause"], [type |-> "StartPlaylist", name |-> "p", force |-> TRUE]}

\* How many Command envelopes a sequence of messages holds.
CountCommands(w) == Cardinality({j \in DOMAIN w : w[j].type = "Command"})

RECURSIVE SumOver(_, _)
SumOver(f, S) == IF S = {} THEN 0
                 ELSE LET x == CHOOSE y \in S : TRUE IN f[x] + SumOver(f, S \ {x})

\* Command envelopes handed to a socket or still awaiting one.
CommandsSent ==
  SumOver([s \in SocketIds |-> CountCommands(wire[s])], SocketIds)
    + SumOver([p \in PromiseIds |-> CountCommands(promises[p].waiters)], PromiseIds)

\* sendCommand(command): a Command envelope through send(), nothing awaited.
sendCommand(command) ==
  /\ send([type |-> "Command", command |-> command])
  /\ UNCHANGED <<requestId, requests, outcome>>

SendCommand(command) ==
  /\ closeDue = 0
  /\ CommandsSent < MaxCommands
  /\ sendCommand(command)
  /\ UNCHANGED <<calls, socket, sockets, inbound, closeDue, observers, beside>>

\* Commands and requests over a connection that opens and is closed.
CommandNext ==
  \/ \E s \in SocketIds : SocketOpen(s)
  \/ \E s \in SocketIds : SocketClose(s)
  \/ \E path \in Paths, data \in Datas : Request(path, data)
  \/ \E command \in Commands : SendCommand(command)

CommandSpec == Init /\ [][CommandNext]_vars

----------------------------------------------------------------------------
\* The typed API surface: handler(path, decoder) and paramHandler(path, decoder).

Decoders == {"AppStateDecoder", "StoredPlaylistDecoder"}

\* Raw responses: JSON of the shape of an AppState, of a StoredPlaylist, of neither.
RawValues == {"rawAppState", "rawStoredPlaylist", "rawOther"}

\* The raw value passes the decoder's schema.
Accepts(d, raw) ==
  \/ d = "AppStateDecoder" /\ raw = "rawAppState"
  \/ d = "StoredPlaylistDecoder" /\ raw = "rawStoredPlaylist"

\* The typed value a decoder produces.
Decoded(d) == IF d = "AppStateDecoder" THEN "AppState" ELSE "StoredPlaylist"

\* decoder.decodePromise(raw): fulfilled with the typed value, or rejected.
decodePromise(d, raw) ==
  IF Accepts(d, raw)
  THEN [state |-> "resolved", value |-> Decoded(d)]
  ELSE [state |-> "rejected", value |-> "DecodeError"]

\* How the promise returned by request() may settle.
Settlements ==
  {[state |-> "resolved", value |-> raw] : raw \in RawValues}
    \cup {[state |-> "rejected", value |-> "TransportError"]}

\* Mutant of handlerResult: the awaited response is returned as it came.
handlerResult_Undecoded(d, settlement) == settlement

\* The async function after `await this.request(...)`: a rejection of the
\* request is thrown on, a response goes through decoder.decodePromise.
handlerResult(d, settlement) ==
  IF settlement.state = "rejected" THEN settlement
  ELSE decodePromise(d, settlement.value)

\* handler(path, decoder)(): this.request(path, undefined), then await.
handler(path, d) ==
  /\ Called(path, Undefined)
  /\ handlers' = Append(handlers, [call |-> Len(calls) + 1, decoder |-> d,
                                   result |-> Pending])
  /\ UNCHANGED <<fetched, store>>

\* paramHandler(path, decoder)(data): this.request(path, data), then await.
paramHandler(path, d, data) ==
  /\ Called(path, data)
  /\ handlers' = Append(handlers, [call |-> Len(calls) + 1, decoder |-> d,
                                   result |-> Pending])
  /\ UNCHANGED <<fetched, store>>

\* The promise of call k of request() settles, and the handlers awaiting it
\* run on.
Awaited(k, settlement) ==
  /\ closeDue = 0
  /\ k \in DOMAIN outcome
  /\ outcome[k] = Pending
  /\ outcome' = [outcome EXCEPT ![k] = settlement]
  /\ handlers' = [h \in DOMAIN handlers |->
                    IF handlers[h].call = k
                    THEN [handlers[h] EXCEPT
                            !.result = handlerResult(handlers[h].decoder, settlement)]
                    ELSE handlers[h]]
  /\ UNCHANGED <<requestId, requests, calls, uncaught, socket, promises, sockets,
                 wire, inbound, closeDue, observers, fetched, store>>

HandlerNext ==
  \/ \E path \in Paths, d \in Decoders : handler(path, d)
  \/ \E path \in Paths, d \in Decoders, data \in ParamDatas : paramHandler(path, d, data)
  \/ \E k \in 1..MaxRequests, settlement \in Settlements : Awaited(k, settlement)
  \/ \E s \in SocketIds : SocketOpen(s)

HandlerSpec == Init /\ [][HandlerNext]_vars

----------------------------------------------------------------------------
\* The HTTP helpers: request(path, decoder, defaults) and typedRequest(path,
\* decoder, defaults), and the earlier request(path, decoder, defaults).

OptionKeys == {"method", "body"}
OptionValues == {"v1", "v2"}

\* A RequestInit: some of the keys, each with a value.  An omitted argument
\* (undefined) is the empty one: Object.assign skips it.
Options == UNION {[K -> OptionValues] : K \in SUBSET OptionKeys}

Params == {"p1"}

\* JSON.stringify(params)
stringify(params) == IF params = "p1" THEN "\"p1\"" ELSE "null"

\* Object.assign(target, source): the source's keys overwrite the target's.
assign(target, source) ==
  [k \in DOMAIN target \cup DOMAIN source |->
     IF k \in DOMAIN source THEN source[k] ELSE target[k]]

Empty == [k \in {} |-> "v1"]

\* request(path, decoder, defaults)(init): Object.assign({}, defaults, init)
httpRequest(defaults, init) == assign(assign(Empty, defaults), init)

\* typedRequest(path, decoder, defaults)(params, init):
\* Object.assign({body: JSON.stringify(params)}, defaults, init)
typedRequest(params, defaults, init) ==
  assign(assign([k \in {"body"} |-> stringify(params)], defaults), init)

\* The earlier request(path, decoder, defaults): its function takes no
\* argument, Object.assign({}, defaults).
apiRequest(defaults, init) == assign(Empty, defaults)

\* fetch(path, options): the call is recorded; the connection is not involved.
fetch(helper, defaults, init, options) ==
  /\ fetched' = [helper |-> helper, defaults |-> defaults, init |-> init,
                 options |-> options]
  /\ UNCHANGED <<conn, socket, promises, sockets, wire, inbound, closeDue,
                 observers, handlers, store>>

HttpRequest(defaults, init) ==
  fetch("request", defaults, init, httpRequest(defaults, init))

TypedRequest(params, defaults, init) ==
  fetch("typedRequest", defaults, init, typedRequest(params, defaults, init))

ApiRequest(defaults, init) ==
  fetch("request (earlier)", defaults, init, apiRequest(defaults, init))

FetchNext ==
  \/ \E defaults \in Options, init \in Options : HttpRequest(defaults, init)
  \/ \E params \in Params, defaults \in Options, init \in Options :
       TypedRequest(params, defaults, init)
  \/ \E defaults \in Options, init \in Options : ApiRequest(defaults, init)

FetchSpec == Init /\ [][FetchNext]_vars

----------------------------------------------------------------------------
\* The store: the reducer map, immutableReducer, and createStore's reducer.
\* State objects live in a heap; a reducer of the map mutates the object it is
\* given, and produce() hands it a draft.

PlaylistNames == {"a", "b"}
TrackLists ==
  {<<>>, <<[path |-> "x.mp3", title |-> "X"]>>,
   <<[path |-> "x.mp3", title |-> "X"], [path |-> "y.mp3", title |-> "Y"]>>}

StoredPlaylists == {[name |-> n, tracks |-> ts] : n \in PlaylistNames, ts \in TrackLists}

\* The types that have a reducer.
ReducerTypes == {"UpdateStoredPlaylist"}

Actions ==
  {[type |-> "UpdateStoredPlaylist", payload |-> pl] : pl \in StoredPlaylists}
    \cup {[type |-> "Other", payload |-> pl] : pl \in {[name |-> "a", tracks |-> <<>>]}}

\* Map.set(key, value)
mapSet(m, key, value) ==
  [x \in DOMAIN m \cup {key} |-> IF x = key THEN value ELSE m[x]]

\* UpdateStoredPlaylist(state, payload): state.storedPlaylists.set(payload.name,
\* payload), on the object at ref.
UpdateStoredPlaylist(h, ref, payload) ==
  [h EXCEPT ![ref].storedPlaylists = mapSet(@, payload.name, payload)]

\* reducerMap[action.type](state, action.payload)
reducerMap(h, ref, action) == UpdateStoredPlaylist(h, ref, action.payload)

\* produce(base, recipe) hands the recipe a draft of base: a new object with
\* base's value.
draft(h) == Len(h) + 1

drafted(h, base) == Append(h, h[base])

\* produce(base, recipe), given the heap the recipe left: the result is the
\* finished draft, or base itself when the recipe changed nothing.
produce(h, base, after) ==
  IF after[draft(h)] = h[base]
  THEN [heap |-> h, state |-> base]
  ELSE [heap |-> after, state |-> draft(h)]

\* Mutant of immutableReducer: the reducer is run on the state itself.
immutableReducer_InPlace(h, state, action) ==
  IF action.type \in ReducerTypes
  THEN [heap |-> reducerMap(h, state, action), state |-> state]
  ELSE [heap |-> h, state |-> state]

\* immutableReducer(reducerMap)(state, action)
immutableReducer(h, state, action) ==
  IF action.type \in ReducerTypes
  THEN produce(h, state, reducerMap(drafted(h, state), draft(h), action))
  ELSE [heap |-> h, state |-> state]

\* reducer(reducers)(state, action): runs the reducer on the state it is given.
reducer(h, state, action) ==
  IF action.type \in ReducerTypes THEN reducerMap(h, state, action) ELSE h

\* The reducer createStore() gives redux: produce(state, draft => reducer(draft, action))
createStore(h, state, action) ==
  produce(h, state, reducer(drafted(h, state), draft(h), action))

\* A dispatch: the current state object is the input (ref 1 of the heap kept).
Took(action, result) ==
  /\ store' = [heap |-> result.heap, state |-> result.state,
               before |-> store.heap[store.state], action |-> action]
  /\ UNCHANGED <<conn, socket, promises, sockets, wire, inbound, closeDue,
                 observers, handlers, fetched>>

Dispatch(action) ==
  Took(action, immutableReducer(<<store.heap[store.state]>>, 1, action))

DispatchCreated(action) ==
  Took(action, createStore(<<store.heap[store.state]>>, 1, action))

StoreNext ==
  \/ \E action \in Actions : Dispatch(action)
  \/ \E action \in Actions : DispatchCreated(action)

StoreSpec == Init /\ [][StoreNext]_vars

----------------------------------------------------------------------------
\* Vocabulary of the properties.

Calls == DOMAIN calls

Settled(k) == outcome[k].state \in {"resolved", "rejected"}

\* The sockets that were handed the Request envelope of call k.
Carriers(k) == {s \in SocketIds : calls[k].id \in Ids(wire[s])}

\* Position of the Request envelope with id i in w.
Pos(w, i) == CHOOSE j \in DOMAIN w : w[j].type = "Request" /\ w[j].id = i

\* How many Request envelopes with id i a sequence of messages holds.
Count(w, i) == Cardinality({j \in DOMAIN w : w[j].type = "Request" /\ w[j].id = i})

RECURSIVE Sum(_, _)
Sum(f, S) == IF S = {} THEN 0
             ELSE LET x == CHOOSE y \in S : TRUE IN f[x] + Sum(f, S \ {x})

\* Envelopes with id i handed to some socket, and still awaiting some promise.
Transmitted(i) == Sum([s \in SocketIds |-> Count(wire[s], i)], SocketIds)

Queued(i) == Sum([p \in PromiseIds |-> Count(promises[p].waiters, i)], PromiseIds)

\* This step dispatches `frame` to the "message" listener of s.
Dispatched(s, frame) == inbound' = <<s, frame>> /\ inbound' # inbound

\* This step closes socket s, which was open.
Closes(s) == sockets[s].readyState = "open" /\ sockets'[s].readyState = "closed"

\* This step hands a message to socket s.
Transmits(s) == Len(wire'[s]) > Len(wire[s])

\* C1: a request whose envelope was sent and whose entry is in the registry is
\* settled exactly once: at the latest when its Response is dispatched or the
\* socket that carried it closes it is settled, and a settled request is never
\* settled again.
C1_SettledExactlyOnce ==
  [][\A k \in Calls :
       /\ Settled(k) => outcome'[k] = outcome[k]
       /\ ( /\ calls[k].id \in DOMAIN requests
            /\ requests[calls[k].id] = k
            /\ \E s \in Carriers(k) :
                 \/ Closes(s)
                 \/ \E r \in Payloads : Dispatched(s, Response(calls[k].id, r)) )
          => Settled(k)']_vars

\* C2: when the socket held by an Open connection errors or closes, every
\* pending request is rejected and the registry is empty afterwards.
C2_RejectAllOnLoss ==
  [][\A s \in SocketIds :
       (IsOpen /\ promises[socket].socket = s /\ Closes(s))
         => /\ DOMAIN requests' = {}
            /\ \A i \in DOMAIN requests :
                 outcome[requests[i]] = Pending
                   => outcome'[requests[i]].state = "rejected"]_vars

\* C3: the correlation ids assigned by request() are strictly increasing in
\* call order, hence pairwise distinct, whatever happened to the socket in
\* between.
C3_IdsIncreasing ==
  \A a \in Calls, b \in Calls : a < b => calls[a].id < calls[b].id

\* C3 witness: two calls were made, one before and one after a reconnect.
C3_Witness ==
  \E a \in Calls, b \in Calls : a < b /\ calls[a].on # calls[b].on /\ socket > 1

\* C4: a Response whose id is pending resolves the promise of the call that
\* was assigned that id with the payload, removes that entry and touches no
\* other.
C4_ResponseResolves ==
  [][\A s \in SocketIds, frame \in Frames :
       (Dispatched(s, frame) /\ frame.type = "Response" /\ frame.id \in DOMAIN requests)
         => /\ outcome'[requests[frame.id]] =
                 [state |-> "resolved", value |-> frame.response]
            /\ requests' = [i \in DOMAIN requests \ {frame.id} |-> requests[i]]
            /\ \A k \in Calls : k # requests[frame.id] => outcome'[k] = outcome[k]]_vars

\* C5: when a message is handed to a socket, no request carried by a socket
\* that has closed is still pending: the rejection precedes the first send on
\* the replacement socket.
C5_RejectedBeforeResend ==
  [][\A t \in SocketIds :
       Transmits(t)
         => \A k \in Calls :
              (\E s \in Carriers(k) : sockets[s].readyState = "closed")
                => Settled(k)]_vars

\* C6: whenever the connection is not Open an attempt of the held connection
\* is under way, and (the server accepting attempts eventually) the connection
\* becomes Open again.
C6_ReconnectsForever ==
  /\ [](~IsOpen => \E s \in SocketIds :
                     sockets[s].promise = socket /\ sockets[s].readyState = "connecting")
  /\ (~IsOpen) ~> IsOpen

\* C6 witness: the connection is Open on a replacement socket, after a failed
\* attempt and after the loss of an open socket.
C6_Witness ==
  /\ IsOpen
  /\ socket > 1
  /\ \E s \in SocketIds : sockets[s].readyState = "closed" /\ ~sockets[s].listeners

\* C7: the connection is in exactly one of its three states and at most one
\* socket it created is active (connecting or open).
C7_OneActiveSocket ==
  /\ State \in {"Connecting", "Open", "Reconnecting"}
  /\ Cardinality({s \in SocketIds :
                    sockets[s].readyState \in {"connecting", "open"}}) <= 1

\* C8: a request issued while the connection is not Open is registered at
\* once, its envelope is either still queued or was handed to a socket, once
\* in all; envelopes are handed only to sockets that have opened, are sent as
\* soon as the awaited socket opens, and sending raises nothing.
C8_SentOnceAfterOpen ==
  /\ ~uncaught
  /\ \A s \in SocketIds : sockets[s].readyState = "connecting" => wire[s] = <<>>
  /\ \A p \in PromiseIds : promises[p].socket # 0 => promises[p].waiters = <<>>
  /\ \A k \in Calls :
       calls[k].on = 0
         => /\ calls[k].id \in DOMAIN requests
            /\ requests[calls[k].id] = k
            /\ Transmitted(calls[k].id) + Queued(calls[k].id) = 1

\* C8 witness: a request issued while not Open has been handed to a socket.
C8_Witness ==
  \E k \in Calls : calls[k].on = 0 /\ Transmitted(calls[k].id) = 1

\* C9: two requests issued on the same Open socket are handed to it in call
\* order.
C9_SendOrder ==
  \A a \in Calls, b \in Calls :
    (a < b /\ calls[a].on # 0 /\ calls[a].on = calls[b].on)
      => LET w == wire[calls[a].on]
         IN /\ Count(w, calls[a].id) = 1
            /\ Count(w, calls[b].id) = 1
            /\ Pos(w, calls[a].id) < Pos(w, calls[b].id)

\* C9 witness: two requests were issued on the same Open socket.
C9_Witness ==
  \E a \in Calls, b \in Calls :
    a < b /\ calls[a].on # 0 /\ calls[a].on = calls[b].on

\* C10: a Response whose id has no entry in the registry changes nothing: no
\* error, no change of the registry, of any promise, of the next id or of the
\* connection's socket.
C10_UnmatchedIsNoOp ==
  [][\A s \in SocketIds, frame \in Frames :
       (Dispatched(s, frame) /\ frame.type = "Response" /\ frame.id \notin DOMAIN requests)
         => UNCHANGED <<requestId, requests, outcome, uncaught, socket, promises,
                        sockets, wire>>]_vars

\* C10 witness: a Response with an unknown id was dispatched while a request
\* was pending.
C10_Witness ==
  /\ inbound # <<>>
  /\ inbound[2].type = "Response"
  /\ inbound[2].id \notin DOMAIN requests
  /\ DOMAIN requests # {}

\* C11: an Event frame is handed to the event subscribers and leaves the
\* registry and every request's promise as they were.
C11_EventDelivered ==
  [][\A s \in SocketIds, e \in EventTypes :
       Dispatched(s, Event(e))
         => /\ events' = Append(events, Event(e).event)
            /\ UNCHANGED <<requests, outcome>>]_vars

\* C12: a frame with an unknown type tag is reported and discarded: nothing
\* uncaught, the held socket stays, no reconnect, and the registry and the
\* next correlation id are unchanged.
C12_UnknownReported ==
  [][\A s \in SocketIds :
       Dispatched(s, Unknown)
         => /\ reports' = Append(reports, Unknown)
            /\ ~uncaught'
            /\ UNCHANGED <<socket, promises, sockets, requests, outcome, requestId>>]_vars

\* C13: a typed handler sends exactly one request per call; its promise is
\* pending while the request is, rejected when the request is rejected or the
\* response fails the schema, and fulfilled with the decoded value, never the
\* raw one, when the response passes.
C13_HandlerDecodes ==
  /\ Len(handlers) = Len(calls)
  /\ \A h \in DOMAIN handlers :
       LET k == handlers[h].call
           d == handlers[h].decoder
           res == handlers[h].result
       IN /\ k = h
          /\ Transmitted(calls[k].id) + Queued(calls[k].id) = 1
          /\ outcome[k].state = "pending" => res = Pending
          /\ outcome[k].state = "rejected" => res.state = "rejected"
          /\ (outcome[k].state = "resolved" /\ Accepts(d, outcome[k].value))
               => res = [state |-> "resolved", value |-> Decoded(d)]
          /\ (outcome[k].state = "resolved" /\ ~Accepts(d, outcome[k].value))
               => res.state = "rejected"
          /\ res.state = "resolved" => res.value \notin RawValues

\* C13 witness: one handler was fulfilled with a decoded value and another
\* rejected because its response failed the schema.
C13_Witness ==
  \E g \in DOMAIN handlers, h \in DOMAIN handlers :
    /\ handlers[g].result = [state |-> "resolved", value |-> Decoded(handlers[g].decoder)]
    /\ outcome[handlers[h].call].state = "resolved"
    /\ handlers[h].result.state = "rejected"

C15_PerCallOverDefaults ==
  fetched.helper # "none"
    => \A k \in OptionKeys :
         /\ k \in DOMAIN fetched.init
              => (k \in DOMAIN fetched.options /\ fetched.options[k] = fetched.init[k])
         /\ (k \notin DOMAIN fetched.init /\ k \in DOMAIN fetched.defaults)
              => (k \in DOMAIN fetched.options /\ fetched.options[k] = fetched.defaults[k])

\* C16: the registry holds an entry for an id exactly when that id was
\* assigned by request() and the promise of that call is not settled; every
\* key is below the next correlation id and belongs to the one call that was
\* assigned it.
C16_RegistryIsPending ==
  /\ \A i \in DOMAIN requests :
       /\ i < requestId
       /\ requests[i] \in Calls
       /\ calls[requests[i]].id = i
       /\ outcome[requests[i]] = Pending
  /\ \A k \in Calls :
       outcome[k] = Pending
         => (calls[k].id \in DOMAIN requests /\ requests[calls[k].id] = k)

\* C16 witness: two requests are pending in the registry, one sent on a socket
\* that has closed since.
C16_Witness ==
  /\ Cardinality(DOMAIN requests) = 2
  /\ \E k \in Calls : \E s \in Carriers(k) : sockets[s].readyState = "closed"

\* C17: a dispatch does not change the state object it was given; an action
\* with a reducer yields a state with the reducer's change applied, and an
\* action without one yields the very same state.
C17_InputNotMutated ==
  store.action.type # "@@INIT"
    => /\ store.heap[1] = store.before
       /\ store.action.type \in ReducerTypes
            => store.heap[store.state].storedPlaylists =
                 mapSet(store.before.storedPlaylists, store.action.payload.name,
                        store.action.payload)
       /\ store.action.type \notin ReducerTypes
            => (store.state = 1 /\ store.heap = <<store.before>>)

\* C17 witness: a dispatch replaced a stored playlist: the new state differs
\* from the state it was given.
C17_Witness ==
  /\ store.action.type = "UpdateStoredPlaylist"
  /\ store.action.payload.name \in DOMAIN store.before.storedPlaylists
  /\ store.heap[store.state] # store.before

====
